---------------------------- MODULE Spec2Model ----------------------------
(***************************************************************************)
(* State-machine model of src/streamlit_app.py, a Streamlit application    *)
(* for CT quality control.                                                 *)
(*                                                                         *)
(* Streamlit executes the whole script once per user interaction: the      *)
(* browser submits the widget values together with the widget that         *)
(* triggered the rerun, and the script run handles it to completion before *)
(* the next one is accepted.  An action of the model is one script run for *)
(* one such request r; it performs the sidebar block of the script (lines  *)
(* 1461-1481), which runs ahead of main() in every script run, and then    *)
(* the handler of the section that r addresses.                            *)
(*                                                                         *)
(* Numbers.  The program computes with Python floats.  The model computes  *)
(* in exact arithmetic on integers: every physical quantity is an integer  *)
(* count of a fixed unit (stated where the quantity is introduced), and    *)
(* quotients that are not integers are kept as fractions [num, den].       *)
(* Emoji prefixes of the status texts are left out of the strings.         *)
(***************************************************************************)
EXTENDS Integers, Sequences, FiniteSets, TLC

VARIABLES
    qc_data,        \* st.session_state.qc_data, a Python value
    trending_data,  \* st.session_state.trending_data, or NoData when the key is absent
    uploaded_file,  \* content held by the st.file_uploader widget, or NoFile
    scanner_info,   \* st.session_state.scanner_info
    out             \* what the last script run rendered on the page

vars == <<qc_data, trending_data, uploaded_file, scanner_info, out>>

NoData    == [present |-> FALSE]
NoFile    == [present |-> FALSE]
NoOutput  == [kind |-> "none"]

----------------------------------------------------------------------------
(* Generic helpers *)

Abs(x) == IF x < 0 THEN -x ELSE x

Max2(a, b) == IF a >= b THEN a ELSE b

Min2(a, b) == IF a <= b THEN a ELSE b

RECURSIVE SeqSum(_)
SeqSum(s) == IF s = <<>> THEN 0 ELSE Head(s) + SeqSum(Tail(s))

RECURSIVE SeqMax(_)
SeqMax(s) == IF Len(s) = 1 THEN s[1] ELSE Max2(Head(s), SeqMax(Tail(s)))

RECURSIVE SeqMin(_)
SeqMin(s) == IF Len(s) = 1 THEN s[1] ELSE Min2(Head(s), SeqMin(Tail(s)))

EmptyMap == [k \in {} |-> TRUE]

\* d[k] = v on a Python dict (insert or overwrite)
Put(d, k, v) == [x \in (DOMAIN d) \cup {k} |-> IF x = k THEN v ELSE d[x]]

----------------------------------------------------------------------------
(* Python values.  Every value carries its Python type, so that a          *)
(* conversion which changes the type of a value is visible.                *)

PyFloat(x) == [type |-> "float", val |-> x]
PyInt(x)   == [type |-> "int", val |-> x]
PyStr(s)   == [type |-> "str", val |-> s]
PyBool(b)  == [type |-> "bool", val |-> b]
PyDict(f)  == [type |-> "dict", val |-> f]
PyList(s)  == [type |-> "list", val |-> s]

\* datetime.now().isoformat(): a string; the clock value is not modelled
NowIso == PyStr("isoformat")


----------------------------------------------------------------------------
(* Exact fractions, standing for the float results of the program's        *)
(* divisions.  A fraction is kept in lowest terms with a positive          *)
(* denominator, so that equal numbers are equal values.                    *)

RECURSIVE Gcd(_, _)
Gcd(a, b) == IF b = 0 THEN a ELSE Gcd(b, a % b)

Frac(n, d) ==
    LET s == IF d < 0 THEN -1 ELSE 1
        g == Gcd(Abs(n), Abs(d))
    IN  [num |-> (s * n) \div g, den |-> (s * d) \div g]

F(x) == [num |-> x, den |-> 1]

FAdd(a, b) == Frac(a.num * b.den + b.num * a.den, a.den * b.den)

FSub(a, b) == Frac(a.num * b.den - b.num * a.den, a.den * b.den)

FMul(a, b) == Frac(a.num * b.num, a.den * b.den)

\* a / b; the caller guarantees b # 0 (otherwise Python raises ZeroDivisionError)
FDiv(a, b) == Frac(a.num * b.den, a.den * b.num)

FLE(a, b) == a.num * b.den <= b.num * a.den

FLT(a, b) == a.num * b.den < b.num * a.den

FAbs(a) == [num |-> Abs(a.num), den |-> a.den]

\* Python max(a, b)
FMax(a, b) == IF FLT(a, b) THEN b ELSE a

----------------------------------------------------------------------------
(* JSON export / import (lines 1438-1458).  A JSON text is modelled by its *)
(* parse tree; a JSON number records whether its text has a fraction part  *)
(* ("18.0" as against "18"), because that is what json.loads uses to       *)
(* choose between float and int.                                           *)

\* Variant of json_dumps: a float with an integral value is written without a
\* fraction part ("18" for 18.0), as a JavaScript serializer writes it
RECURSIVE json_dumps_integral(_)
json_dumps_integral(o) ==
    CASE o.type = "dict"  ->
            [json |-> "object", val |-> [k \in DOMAIN o.val |-> json_dumps_integral(o.val[k])]]
      [] o.type = "list"  ->
            [json |-> "array", val |-> [i \in 1..Len(o.val) |-> json_dumps_integral(o.val[i])]]
      [] o.type = "float" -> [json |-> "number", frac |-> o.val.den # 1, val |-> o.val]
      [] o.type = "int"   -> [json |-> "number", frac |-> FALSE, val |-> o.val]
      [] o.type = "bool"  -> [json |-> "literal", val |-> o.val]
      [] o.type = "str"   -> [json |-> "string", val |-> o.val]
      [] OTHER            -> [json |-> "string", val |-> o.val]

\* json.dumps(obj, indent=2, default=str)
RECURSIVE json_dumps(_)
json_dumps(o) ==
    CASE o.type = "dict"  ->
            [json |-> "object", val |-> [k \in DOMAIN o.val |-> json_dumps(o.val[k])]]
      [] o.type = "list"  ->
            [json |-> "array", val |-> [i \in 1..Len(o.val) |-> json_dumps(o.val[i])]]
      [] o.type = "float" -> [json |-> "number", frac |-> TRUE, val |-> o.val]
      [] o.type = "int"   -> [json |-> "number", frac |-> FALSE, val |-> o.val]
      [] o.type = "bool"  -> [json |-> "literal", val |-> o.val]
      [] o.type = "str"   -> [json |-> "string", val |-> o.val]
      [] OTHER            -> [json |-> "string", val |-> o.val]    \* default=str

\* json.loads(text)
RECURSIVE json_loads(_)
json_loads(j) ==
    CASE j.json = "object"  ->
            PyDict([k \in DOMAIN j.val |-> json_loads(j.val[k])])
      [] j.json = "array"   ->
            PyList([i \in 1..Len(j.val) |-> json_loads(j.val[i])])
      [] j.json = "number"  -> IF j.frac THEN PyFloat(j.val) ELSE PyInt(j.val)
      [] j.json = "literal" -> PyBool(j.val)
      [] j.json = "string"  -> PyStr(j.val)

\* A file of the given JSON text, as held by the uploader
JsonFile(j) == [present |-> TRUE, parses |-> TRUE, text |-> j]

\* import_qc_data(), called from the sidebar block in every script run: while
\* the uploader holds a file, the store is replaced by the parsed file; a
\* file that does not parse raises inside the try and leaves the store alone.
import_qc_data(store, file) ==
    IF file.present
    THEN IF file.parses THEN json_loads(file.text) ELSE store
    ELSE store

----------------------------------------------------------------------------
(* Dosimetry (lines 289-405).  CTDI readings are counts of 0.1 mGy, the    *)
(* step of the number inputs.                                              *)

DosimetryProtocols == {"Adult Abdomen", "Adult Head", "Ped Abd (45lb)", "Ped Head (1y)"}

\* Variant of acr_limits: the Adult Head limits 5 mGy higher
acr_limits_raised_head ==
    [p \in DosimetryProtocols |->
        CASE p = "Adult Abdomen"  -> [ref |-> 250, pf |-> 300, phantom |-> "32cm"]
          [] p = "Adult Head"     -> [ref |-> 800, pf |-> 850, phantom |-> "16cm"]
          [] p = "Ped Abd (45lb)" -> [ref |-> 75,  pf |-> 100, phantom |-> "32cm"]
          [] p = "Ped Head (1y)"  -> [ref |-> 350, pf |-> 400, phantom |-> "16cm"]]

\* lines 344-349
acr_limits ==
    [p \in DosimetryProtocols |->
        CASE p = "Adult Abdomen"  -> [ref |-> 250, pf |-> 300, phantom |-> "32cm"]
          [] p = "Adult Head"     -> [ref |-> 750, pf |-> 800, phantom |-> "16cm"]
          [] p = "Ped Abd (45lb)" -> [ref |-> 75,  pf |-> 100, phantom |-> "32cm"]
          [] p = "Ped Head (1y)"  -> [ref |-> 350, pf |-> 400, phantom |-> "16cm"]]

\* line 319
ctdi_periphery_avg(top, bottom, left, right) == FDiv(F(top + bottom + left + right), F(4))

\* Variant of ctdi_w: centre and periphery averaged without the weights
ctdi_w_unweighted(center, periphery_avg) == FDiv(FAdd(F(center), periphery_avg), F(2))

\* line 341
ctdi_w(center, periphery_avg) == FDiv(FAdd(F(center), FMul(F(4), periphery_avg)), F(5))

\* Variant of dosimetry_status: both limits compared with < instead of <=
dosimetry_status_strict(w, limit) ==
    IF FLT(w, F(limit.ref)) THEN "Pass - Below Reference"
    ELSE IF FLT(w, F(limit.pf)) THEN "Minor - Above Reference, Below P/F"
    ELSE "Major Fail - Above Pass/Fail Limit"

\* lines 371-379
dosimetry_status(w, limit) ==
    IF FLE(w, F(limit.ref)) THEN "Pass - Below Reference"
    ELSE IF FLE(w, F(limit.pf)) THEN "Minor - Above Reference, Below P/F"
    ELSE "Major Fail - Above Pass/Fail Limit"

\* lines 386-402: the record stored for the protocol
dosimetry_record(r, avg, w, status) ==
    LET limit == acr_limits[r.protocol_type] IN
    PyDict([ctdi_center    |-> PyFloat(F(r.ctdi_center)),
            ctdi_periphery |-> PyFloat(avg),
            ctdi_w         |-> PyFloat(w),
            kvp            |-> PyInt(r.kvp),
            ma             |-> PyInt(r.ma),
            rotation_time  |-> PyFloat(r.rotation_time),
            mas            |-> PyFloat(FMul(F(r.ma), r.rotation_time)),
            nt             |-> PyFloat(FMul(F(r.n_detectors), r.detector_width)),
            pct_ref        |-> PyFloat(FMul(FDiv(w, F(limit.ref)), F(100))),
            pct_pf         |-> PyFloat(FMul(FDiv(w, F(limit.pf)), F(100))),
            status         |-> PyStr(status),
            date           |-> NowIso])

\* qc_data[section][protocol] = record, creating the section when absent
save_result(store, section, protocol, record) ==
    LET sec == IF section \in DOMAIN store.val THEN store.val[section] ELSE PyDict(EmptyMap)
    IN  PyDict(Put(store.val, section, PyDict(Put(sec.val, protocol, record))))

\* The "Calculate Dosimetry Results" button (line 338)
RunDosimetry(r) ==
    /\ r.kind = "dosimetry"
    /\ LET store == import_qc_data(qc_data, uploaded_file)
           avg   == ctdi_periphery_avg(r.ctdi_top, r.ctdi_bottom, r.ctdi_left, r.ctdi_right)
       IN  IF r.ctdi_center > 0 /\ FLT(F(0), avg)
           THEN IF r.protocol_type \notin DOMAIN acr_limits
                THEN \* line 351: acr_limits[protocol_type] raises KeyError
                     /\ qc_data' = store
                     /\ out' = [kind |-> "exception", section |-> "dosimetry",
                                exception |-> "KeyError", request |-> r]
                ELSE
                LET w      == ctdi_w(r.ctdi_center, avg)
                    status == dosimetry_status(w, acr_limits[r.protocol_type])
                IN  /\ qc_data' = save_result(store, "dosimetry_results", r.protocol_type,
                                              dosimetry_record(r, avg, w, status))
                    /\ out' = [kind |-> "dosimetry", request |-> r, error |-> FALSE,
                               ctdi_periphery_avg |-> avg, ctdi_w |-> w, status |-> status]
           ELSE /\ qc_data' = store
                /\ out' = [kind |-> "dosimetry", request |-> r, error |-> TRUE,
                           message |-> "Please enter valid CTDI measurements"]
    /\ UNCHANGED <<trending_data, uploaded_file, scanner_info>>

\* Widget defaults of the scan parameters (lines 324-328); rotation time and
\* detector width are floats
DefaultScan == [kvp |-> 120, ma |-> 300, rotation_time |-> Frac(7, 10),
                n_detectors |-> 16, detector_width |-> Frac(5, 4)]

DosimetryRequest(p, c, t, b, l, r, scan) ==
    [kind |-> "dosimetry", protocol_type |-> p, ctdi_center |-> c, ctdi_top |-> t,
     ctdi_bottom |-> b, ctdi_left |-> l, ctdi_right |-> r,
     kvp |-> scan.kvp, ma |-> scan.ma, rotation_time |-> scan.rotation_time,
     n_detectors |-> scan.n_detectors, detector_width |-> scan.detector_width]

\* lines 73-84: the scanner information of a fresh session
default_scanner_info ==
    [facility     |-> "University of Tennessee Medical Center",
     address      |-> "601 S Hall of Fame Dr, Knoxville, TN 37915",
     manufacturer |-> "GE",
     model        |-> "Brightspeed",
     serial       |-> "14285HM8",
     location     |-> "CT",
     physicist1   |-> "D. Osborne",
     physicist2   |-> "",
     xray_license |-> "647-1384"]

\* A fresh session (lines 69-84), before any script run has rendered a section
Init ==
    /\ qc_data = PyDict(EmptyMap)
    /\ trending_data = NoData
    /\ uploaded_file = NoFile
    /\ scanner_info = default_scanner_info
    /\ out = NoOutput

(* Readings close to the two limits of the protocol, and the untouched     *)
(* default 0                                                               *)
ReadingSpread == 1

DoseReadings(p) ==
    {0} \cup {acr_limits[p].ref + d : d \in -ReadingSpread..ReadingSpread}
        \cup {acr_limits[p].pf + d : d \in -ReadingSpread..ReadingSpread}

\* The first dosimetry evaluation of a session, for any protocol and readings
FirstDosimetry ==
    /\ out = NoOutput
    /\ \E p \in DosimetryProtocols :
         \E c, t, b, l, r \in DoseReadings(p) :
            RunDosimetry(DosimetryRequest(p, c, t, b, l, r, DefaultScan))

SpecDose == Init /\ [][FirstDosimetry]_vars

----------------------------------------------------------------------------
(* CT number accuracy (lines 497-586).  CT numbers are counts of 1 HU, the *)
(* step of the number inputs.                                              *)

Materials == <<"Air", "Acrylic", "Water", "Bone">>   \* insertion order of `measurements'

CTNumberProtocols == {"Adult Abdomen", "Adult Head", "Ped Abd", "Ped Head"}

\* lines 509-514
materials_ref ==
    [Air     |-> [expected |-> -1000, tolerance |-> 100],
     Acrylic |-> [expected |-> 120,   tolerance |-> 40],
     Water   |-> [expected |-> 0,     tolerance |-> 7],
     Bone    |-> [expected |-> 850,   tolerance |-> 100]]

\* Variant of pass_criteria: the tolerance of water taken from the table
pass_criteria_table(ref, material, measured_value) ==
    Abs(measured_value - ref[material].expected) <= ref[material].tolerance

\* lines 543-551, for the reference table `ref'
pass_criteria(ref, material, measured_value) ==
    LET expected   == ref[material].expected
        tolerance  == ref[material].tolerance
        difference == measured_value - expected
    IN  IF material = "Water"
        THEN Abs(difference) <= 7
        ELSE Abs(difference) <= tolerance

\* f"{x:.1f}" and f"{x:+.1f}" of a float with an integral value
Fmt1f(x) == ToString(x) \o ".0"

FmtSigned1f(x) == (IF x >= 0 THEN "+" ELSE "") \o ToString(x) \o ".0"

\* lines 556-565: one row of the results table
ct_number_row(material, measured_value) ==
    LET expected  == materials_ref[material].expected
        tolerance == materials_ref[material].tolerance
        status    == IF pass_criteria(materials_ref, material, measured_value)
                     THEN "Pass" ELSE "Fail"
    IN  ("Material" :> material) @@
        ("Measured (HU)" :> Fmt1f(measured_value)) @@
        ("Expected (HU)" :> ToString(expected)) @@
        ("Difference (HU)" :> FmtSigned1f(measured_value - expected)) @@
        ("Tolerance (HU)" :> "+-" \o ToString(tolerance)) @@
        ("Result" :> status)

PyRow(row) == PyDict([k \in DOMAIN row |-> PyStr(row[k])])

\* The "Evaluate CT Numbers" button (line 536)
RunCTNumber(r) ==
    /\ r.kind = "ct_number"
    /\ LET store    == import_qc_data(qc_data, uploaded_file)
           results  == [i \in 1..Len(Materials) |->
                           ct_number_row(Materials[i], r.measurements[Materials[i]])]
           all_pass == \A i \in 1..Len(Materials) :
                           pass_criteria(materials_ref, Materials[i], r.measurements[Materials[i]])
           record   == PyDict([measurements |-> PyDict([m \in DOMAIN r.measurements |->
                                                          PyFloat(F(r.measurements[m]))]),
                               results      |-> PyList([i \in 1..Len(results) |-> PyRow(results[i])]),
                               overall_pass |-> PyBool(all_pass),
                               date         |-> NowIso])
       IN  /\ qc_data' = save_result(store, "ct_number_results", r.protocol, record)
           /\ out' = [kind |-> "ct_number", request |-> r, results |-> results,
                      all_pass |-> all_pass,
                      overall_status |-> IF all_pass THEN "Pass" ELSE "Fail"]
    /\ UNCHANGED <<trending_data, uploaded_file, scanner_info>>

CTNumberRequest(p, air, acrylic, water, bone) ==
    [kind |-> "ct_number", protocol |-> p,
     measurements |-> [Air |-> air, Acrylic |-> acrylic, Water |-> water, Bone |-> bone]]

(* Measured values at the expected value and around both ends of the       *)
(* tolerance band of the material                                          *)
CTSpread == 1

CTMeasured(material) ==
    LET e == materials_ref[material].expected
        t == materials_ref[material].tolerance
    IN  {e} \cup {e + t + d : d \in -CTSpread..CTSpread}
            \cup {e - t + d : d \in -CTSpread..CTSpread}

\* The first CT number evaluation of a session, for any protocol and measurements
FirstCTNumber ==
    /\ out = NoOutput
    /\ \E p \in CTNumberProtocols :
         \E air \in CTMeasured("Air"), acrylic \in CTMeasured("Acrylic"),
            water \in CTMeasured("Water"), bone \in CTMeasured("Bone") :
            RunCTNumber(CTNumberRequest(p, air, acrylic, water, bone))

SpecCTNumber == Init /\ [][FirstCTNumber]_vars

----------------------------------------------------------------------------
(* Beam collimation (lines 407-495).  The section has no button: the       *)
(* calibration and the table are computed whenever the section is          *)
(* rendered.  Lengths are counts of 0.001 mm and exposures counts of       *)
(* 0.01 mR, which makes every literal of the section an integer.           *)

\* lines 449-454
test_data ==
    << [n |-> 4, T |-> 3750, Measured |-> 47030, Nominal |-> 15000],
       [n |-> 8, T |-> 1250, Measured |-> 34650, Nominal |-> 10000],
       [n |-> 4, T |-> 1250, Measured |-> 19570, Nominal |-> 5000],
       [n |-> 2, T |-> 625,  Measured |-> 4546,  Nominal |-> 1250] >>

\* line 442; the caller guarantees mask_length # 0
cal_dp_l(without_mask, with_mask, mask_length) == Frac(without_mask - with_mask, mask_length)

\* line 465
beam_width(measured, cal) == IF FLT(F(0), cal) THEN FDiv(F(measured), cal) ELSE F(0)

\* Variant of criteria: 30% of the nominal width without the 3 mm floor
criteria_no_floor(nominal_nt) == FMul(F(nominal_nt), Frac(3, 10))

\* lines 469-470
criteria(nominal_nt) == FMax(FMul(F(nominal_nt), Frac(3, 10)), F(3000))

\* line 472
pass_fail(error, crit) == IF FLE(FAbs(error), crit) THEN "Pass" ELSE "Fail"

\* lines 459-483: the row of one tested collimation
beam_row(td, cal) ==
    LET bw    == beam_width(td.Measured, cal)
        error == FSub(bw, F(td.Nominal))
        crit  == criteria(td.Nominal)
    IN  [n |-> td.n, T |-> td.T, Nominal |-> td.Nominal, Measured |-> td.Measured,
         Beam_Width |-> bw, Error |-> error, Criteria |-> crit,
         Result |-> pass_fail(error, crit)]

\* Rendering the beam collimation section
RunBeamCollimation(r) ==
    /\ r.kind = "beam"
    /\ LET readings == r.without_mask > 0 /\ r.with_mask > 0
       IN  IF readings /\ r.mask_length = 0
           THEN \* line 442 raises ZeroDivisionError; the script run ends there
                out' = [kind |-> "beam", request |-> r, exception |-> "ZeroDivisionError",
                        results |-> <<>>, overall_status |-> "none"]
           ELSE LET results ==
                        IF readings /\ r.mask_length > 0
                        THEN [i \in 1..Len(test_data) |->
                                 beam_row(test_data[i],
                                          cal_dp_l(r.without_mask, r.with_mask, r.mask_length))]
                        ELSE <<>>
                    all_pass == \A i \in 1..Len(results) : results[i].Result = "Pass"
                IN  out' = [kind |-> "beam", request |-> r, exception |-> "none",
                            results |-> results,
                            overall_status |-> IF results = <<>> THEN "none"
                                               ELSE IF all_pass THEN "Pass" ELSE "Fail"]
    /\ qc_data' = import_qc_data(qc_data, uploaded_file)
    /\ UNCHANGED <<trending_data, uploaded_file, scanner_info>>

BeamRequest(ml, wo, w) ==
    [kind |-> "beam", mask_length |-> ml, without_mask |-> wo, with_mask |-> w]

(* Calibration inputs: mask lengths on both sides of 0 (the input has no   *)
(* minimum), and readings whose difference puts the 5 mm row on and around *)
(* its criterion (with the 8 mm mask) or makes the slope zero or negative  *)
BeamSpread == 2

MaskLengths == {-5010, 0, 5010, 8000, 10020}

WithoutMaskReadings == {-1000, 0, 1000} \cup {20570 + d : d \in -BeamSpread..BeamSpread}

WithMaskReadings == {0, 1000, 20570}

\* The first rendering of the beam collimation section, for any calibration inputs
FirstBeamCollimation ==
    /\ out = NoOutput
    /\ \E ml \in MaskLengths, wo \in WithoutMaskReadings, w \in WithMaskReadings :
            RunBeamCollimation(BeamRequest(ml, wo, w))

SpecBeam == Init /\ [][FirstBeamCollimation]_vars

----------------------------------------------------------------------------
(* CT number uniformity (lines 724-800).  ROI values are counts of 0.1 HU, *)
(* the step of the number inputs.  The section stores nothing.             *)

\* Variant of max_difference: the signed differences, without abs()
max_difference_signed(center_roi, peripheral_rois) ==
    SeqMax([i \in 1..Len(peripheral_rois) |-> peripheral_rois[i] - center_roi])

\* lines 757-759
max_difference(center_roi, peripheral_rois) ==
    SeqMax([i \in 1..Len(peripheral_rois) |-> Abs(peripheral_rois[i] - center_roi)])

\* Variant of non_uniformity: the ratio itself, not the percentage
non_uniformity_fraction(center_roi, peripheral_rois) ==
    LET roi_max == SeqMax(<<center_roi>> \o peripheral_rois)
        roi_min == SeqMin(<<center_roi>> \o peripheral_rois)
    IN  IF roi_max + roi_min # 0
        THEN FDiv(F(roi_max - roi_min), F(roi_max + roi_min))
        ELSE F(0)

\* lines 762-764
non_uniformity(center_roi, peripheral_rois) ==
    LET roi_max == SeqMax(<<center_roi>> \o peripheral_rois)
        roi_min == SeqMin(<<center_roi>> \o peripheral_rois)
    IN  IF roi_max + roi_min # 0
        THEN FMul(FDiv(F(roi_max - roi_min), F(roi_max + roi_min)), F(100))
        ELSE F(0)

\* line 777: 5.0 HU
uniformity_pass(max_diff) == max_diff <= 50

Positions == <<"Top", "Bottom", "Left", "Right">>

\* The "Evaluate Uniformity" button (line 755)
RunUniformity(r) ==
    /\ r.kind = "uniformity"
    /\ LET peripheral_rois == <<r.top_roi, r.bottom_roi, r.left_roi, r.right_roi>>
           md              == max_difference(r.center_roi, peripheral_rois)
           results         == [i \in 1..4 |->
                                 LET diff == Abs(peripheral_rois[i] - r.center_roi)
                                 IN  [Position |-> Positions[i], ROI |-> peripheral_rois[i],
                                      Difference |-> diff,
                                      Status |-> IF diff <= 50 THEN "Pass" ELSE "Fail"]]
       IN  out' = [kind |-> "uniformity", request |-> r, max_difference |-> md,
                   non_uniformity |-> non_uniformity(r.center_roi, peripheral_rois),
                   uniformity_pass |-> uniformity_pass(md),
                   status |-> IF uniformity_pass(md) THEN "Pass" ELSE "Fail",
                   results |-> results]
    /\ qc_data' = import_qc_data(qc_data, uploaded_file)
    /\ UNCHANGED <<trending_data, uploaded_file, scanner_info>>

UniformityRequest(p, c, t, b, l, r) ==
    [kind |-> "uniformity", protocol |-> p, center_roi |-> c, top_roi |-> t,
     bottom_roi |-> b, left_roi |-> l, right_roi |-> r]

(* ROI values: the centre at 0 or 0.1 HU off 0, the peripheral values at   *)
(* 0 and around 5 HU off 0 on both sides                                   *)
UniformitySpread == 1

CenterROIs == {-1, 0, 1}

PeripheralROIs == {0} \cup {50 + d : d \in -UniformitySpread..UniformitySpread}
                      \cup {-50 + d : d \in -UniformitySpread..UniformitySpread}

\* The first uniformity evaluation of a session, for any protocol and ROI values
FirstUniformity ==
    /\ out = NoOutput
    /\ \E p \in CTNumberProtocols, c \in CenterROIs :
         \E t, b, l, r \in PeripheralROIs :
            RunUniformity(UniformityRequest(p, c, t, b, l, r))

SpecUniformity == Init /\ [][FirstUniformity]_vars

----------------------------------------------------------------------------
(* Data analysis & trending (lines 1003-1130).  trending_data is a table   *)
(* with one row per week; row i of a column is element i of its sequence   *)
(* (the `date' column is the row index).  The values of a column are       *)
(* counts of a grid step of that column's quantity.                        *)

TrendColumns == {"water_ct", "noise", "ctdi_head", "ctdi_body", "uniformity"}

TrendParameters == {"Water CT Number", "Image Noise", "Head CTDI", "Body CTDI", "Uniformity"}

\* lines 1023-1029
param_map ==
    [p \in TrendParameters |->
        CASE p = "Water CT Number" -> "water_ct"
          [] p = "Image Noise"     -> "noise"
          [] p = "Head CTDI"       -> "ctdi_head"
          [] p = "Body CTDI"       -> "ctdi_body"
          [] p = "Uniformity"      -> "uniformity"]

\* Variant of mean_val: the mean of the series without its latest point
mean_val_without_latest(y) == Frac(SeqSum(SubSeq(y, 1, Len(y) - 1)), Len(y) - 1)

\* Series.mean()
mean_val(y) == Frac(SeqSum(y), Len(y))

\* Series.std() squared: the sample variance (ddof = 1) of at least two points,
\* sum((x - mean)^2) / (n - 1) = (n * sum(x^2) - sum(x)^2) / (n * (n - 1))
std_val_squared(y) ==
    LET n == Len(y)
        S == SeqSum(y)
        Q == SeqSum([i \in 1..n |-> y[i] * y[i]])
    IN  Frac(n * Q - S * S, n * (n - 1))

\* lines 1086-1089: the control limit mean_val + k * std_val, std_val being
\* the non-negative square root of `var'
control_limit(mean, k, var) == [mean |-> mean, k |-> k, var |-> var]

\* v > lim, exactly: with d = v - mean and t = k * sqrt(var), d > t
GreaterThan(v, lim) ==
    LET d  == FSub(F(v), lim.mean)
        d2 == FMul(d, d)
        t2 == FMul(F(lim.k * lim.k), lim.var)
    IN  IF lim.k >= 0 \/ lim.var.num = 0
        THEN FLT(F(0), d) /\ FLT(t2, d2)
        ELSE FLE(F(0), d) \/ FLT(d2, t2)

\* v < lim, exactly
LessThan(v, lim) ==
    LET d  == FSub(F(v), lim.mean)
        d2 == FMul(d, d)
        t2 == FMul(F(lim.k * lim.k), lim.var)
    IN  IF lim.k <= 0 \/ lim.var.num = 0
        THEN FLT(d, F(0)) /\ FLT(t2, d2)
        ELSE FLE(d, F(0)) \/ FLT(d2, t2)

\* Variant of out_of_control: the limits themselves count as out of control
out_of_control_inclusive(y, ucl_3sigma, lcl_3sigma) ==
    {i \in 1..Len(y) : ~LessThan(y[i], ucl_3sigma) \/ ~GreaterThan(y[i], lcl_3sigma)}

\* line 1091: the rows of out-of-control points
out_of_control(y, ucl_3sigma, lcl_3sigma) ==
    {i \in 1..Len(y) : GreaterThan(y[i], ucl_3sigma) \/ LessThan(y[i], lcl_3sigma)}

\* Variant of warning_points: the 3-sigma limits excluded
warning_points_strict(y, ucl_2sigma, lcl_2sigma, ucl_3sigma, lcl_3sigma) ==
    {i \in 1..Len(y) :
        \/ GreaterThan(y[i], ucl_2sigma) /\ LessThan(y[i], ucl_3sigma)
        \/ LessThan(y[i], lcl_2sigma) /\ GreaterThan(y[i], lcl_3sigma)}

\* lines 1092-1093: the rows of warning points
warning_points(y, ucl_2sigma, lcl_2sigma, ucl_3sigma, lcl_3sigma) ==
    {i \in 1..Len(y) :
        \/ GreaterThan(y[i], ucl_2sigma) /\ ~GreaterThan(y[i], ucl_3sigma)
        \/ LessThan(y[i], lcl_2sigma) /\ ~LessThan(y[i], lcl_3sigma)}

\* Variant of trend_status: a single out-of-control point is tolerated
trend_status_tolerant(ooc) == IF Cardinality(ooc) <= 1 THEN "Stable" ELSE "Investigate"

\* line 1101
trend_status(ooc) == IF Cardinality(ooc) = 0 THEN "Stable" ELSE "Investigate"

\* lines 1082-1102: the control chart analysis of column y
control_chart(y) ==
    LET mean       == mean_val(y)
        var        == std_val_squared(y)
        ucl_3sigma == control_limit(mean, 3, var)
        lcl_3sigma == control_limit(mean, -3, var)
        ucl_2sigma == control_limit(mean, 2, var)
        lcl_2sigma == control_limit(mean, -2, var)
        ooc        == out_of_control(y, ucl_3sigma, lcl_3sigma)
    IN  [mean_val |-> mean, std_val_squared |-> var,
         out_of_control |-> ooc,
         warning_points |-> warning_points(y, ucl_2sigma, lcl_2sigma, ucl_3sigma, lcl_3sigma),
         trend_status |-> trend_status(ooc)]

(* generate_sample_trending_data() draws every value at random; the draws  *)
(* of a script run come with its request (r.sample), and the model takes   *)
(* them among the tables whose columns have the shape below: a             *)
(* weeks at 0, the following weeks at 1 and the last week at `top', or the *)
(* same with every sign reversed.  The program makes one row per week of   *)
(* the past year; the model makes NumWeeks rows.                           *)
NumWeeks == 13

MaxValue == 5

SampleSeries(a, top, sign) ==
    [i \in 1..NumWeeks |-> sign * (IF i <= a THEN 0 ELSE IF i < NumWeeks THEN 1 ELSE top)]

RichSeries == {SampleSeries(a, top, sign) :
                  a \in 0..(NumWeeks - 1), top \in 0..MaxValue, sign \in {1, -1}}

PlainSeries == {SampleSeries(0, top, 1) : top \in {1, MaxValue}}

SampleTables ==
    {[present |-> TRUE,
      columns |-> [col \in TrendColumns |-> IF col = "water_ct" THEN w ELSE others[col]]] :
        w \in RichSeries, others \in [TrendColumns \ {"water_ct"} -> PlainSeries]}

\* Rendering the data analysis section, with or without the "Generate
\* Sample Trending Data" button pressed (line 1007)
RunTrending(r) ==
    /\ r.kind = "trending"
    /\ trending_data' = IF r.generate THEN r.sample ELSE trending_data
    /\ out' = IF trending_data'.present
              THEN [kind |-> "trending", request |-> r, shown |-> TRUE,
                    chart |-> control_chart(trending_data'.columns[param_map[r.parameter]])]
              ELSE [kind |-> "trending", request |-> r, shown |-> FALSE]
    /\ qc_data' = import_qc_data(qc_data, uploaded_file)
    /\ UNCHANGED <<uploaded_file, scanner_info>>

TrendingRequest(generate, parameter, sample) ==
    [kind |-> "trending", generate |-> generate, parameter |-> parameter, sample |-> sample]

\* The first rendering of the data analysis section, with or without the
\* button, for any parameter and any sample
FirstTrending ==
    /\ out = NoOutput
    /\ \E p \in TrendParameters :
          \/ \E t \in SampleTables : RunTrending(TrendingRequest(TRUE, p, t))
          \/ RunTrending(TrendingRequest(FALSE, p, NoData))

SpecTrending == Init /\ [][FirstTrending]_vars

----------------------------------------------------------------------------
(* Facility information (lines 139-183) *)

\* dict.update(): the keys of u are inserted or overwritten
dict_update(d, u) == [k \in (DOMAIN d) \cup (DOMAIN u) |-> IF k \in DOMAIN u THEN u[k] ELSE d[k]]

\* The "Save Facility Information" button (line 168); the two dates are
\* stored as isoformat strings
RunFacility(r) ==
    /\ r.kind = "facility"
    /\ scanner_info' = dict_update(scanner_info,
            [facility      |-> r.facility,
             address       |-> r.address,
             location      |-> r.location,
             xray_license  |-> r.xray_license,
             manufacturer  |-> r.manufacturer,
             model         |-> r.model,
             serial        |-> r.serial,
             install_date  |-> "isoformat",
             physicist1    |-> r.physicist1,
             physicist2    |-> r.physicist2,
             inspector_num |-> r.inspector_num,
             survey_date   |-> "isoformat"])
    /\ out' = [kind |-> "facility", request |-> r,
               message |-> "Facility information saved successfully!"]
    /\ qc_data' = import_qc_data(qc_data, uploaded_file)
    /\ UNCHANGED <<trending_data, uploaded_file>>

\* The widgets of the section, at the values of the stored scanner
\* information except for the facility name and the two physicists
FacilityRequest(info, facility, physicist1, physicist2) ==
    [kind |-> "facility", facility |-> facility, address |-> info.address,
     location |-> info.location, xray_license |-> info.xray_license,
     manufacturer |-> "GE", model |-> info.model, serial |-> info.serial,
     physicist1 |-> physicist1, physicist2 |-> physicist2, inspector_num |-> "S9112"]

----------------------------------------------------------------------------
(* Protocol review (lines 185-287).  CTDI values and limits are counts of  *)
(* 0.01 mGy.  Of each entry of the table the model keeps the protocol name *)
(* and the three columns that the analysis reads.                          *)

\* lines 197-238
protocols_data ==
    [p \in DosimetryProtocols |->
        CASE p = "Adult Abdomen"  ->
                [protocol |-> "Abdomen Pelvis without", ctdi |-> 1860, acr_ref |-> 2500, acr_pf |-> 3000]
          [] p = "Adult Head"     ->
                [protocol |-> "CT Head wo", ctdi |-> 6203, acr_ref |-> 7500, acr_pf |-> 8000]
          [] p = "Ped Abd (45lb)" ->
                [protocol |-> "CT PED ABD PELV", ctdi |-> 442, acr_ref |-> 750, acr_pf |-> 1000]
          [] p = "Ped Head (1y)"  ->
                [protocol |-> "CT PED BRAIN", ctdi |-> 2575, acr_ref |-> 3500, acr_pf |-> 4000]]

\* Series.round(1) of a non-negative percentage: the nearest tenth, a tie
\* going to the even tenth; the result is a count of tenths
round_1(x) ==
    LET q   == (10 * x.num) \div x.den
        rem == (10 * x.num) % x.den
    IN  IF 2 * rem > x.den \/ (2 * rem = x.den /\ q % 2 = 1) THEN q + 1 ELSE q

\* lines 244-245: the two percentage columns
pct_of(value, limit_value) == round_1(FMul(FDiv(F(value), F(limit_value)), F(100)))

\* lines 246-247: the Status column
protocol_status(row) == IF row.ctdi <= row.acr_pf THEN "Pass" ELSE "Fail"

\* lines 278-279
minor_fails(data) ==
    Cardinality({p \in DOMAIN data : data[p].acr_ref < data[p].ctdi /\ data[p].ctdi <= data[p].acr_pf})

\* lines 282-283
major_fails(data) == Cardinality({p \in DOMAIN data : data[p].ctdi > data[p].acr_pf})

\* lines 243-287: the table and the three metrics of the page, for a table data
protocol_review(data) ==
    [rows            |-> [p \in DOMAIN data |->
                            [pct_ref |-> pct_of(data[p].ctdi, data[p].acr_ref),
                             pct_pf  |-> pct_of(data[p].ctdi, data[p].acr_pf),
                             Status  |-> protocol_status(data[p])]],
     minor_fails     |-> minor_fails(data),
     major_fails     |-> major_fails(data),
     total_protocols |-> Cardinality(DOMAIN data)]

\* Rendering the section: it has no input, the table is the one of the source
RunProtocolReview(r) ==
    /\ r.kind = "protocol_review"
    /\ out' = [kind |-> "protocol_review", request |-> r, data |-> protocols_data,
               review |-> protocol_review(protocols_data)]
    /\ qc_data' = import_qc_data(qc_data, uploaded_file)
    /\ UNCHANGED <<trending_data, uploaded_file, scanner_info>>

(* The analysis of lines 243-287 as a function of the table: the tables    *)
(* below keep the limits of the source and take the CTDI of each protocol  *)
(* at its value in the source or close to one of its two limits.           *)
ReviewSpread == 1

ReviewCTDIs(p) ==
    {protocols_data[p].ctdi}
        \cup {protocols_data[p].acr_ref + d : d \in -ReviewSpread..ReviewSpread}
        \cup {protocols_data[p].acr_pf + d : d \in -ReviewSpread..ReviewSpread}

ReviewTable(ctdi) == [p \in DosimetryProtocols |-> [protocols_data[p] EXCEPT !.ctdi = ctdi[p]]]

\* The page for any such table
FirstProtocolReview ==
    /\ out = NoOutput
    /\ \E aa \in ReviewCTDIs("Adult Abdomen"), ah \in ReviewCTDIs("Adult Head"),
          pa \in ReviewCTDIs("Ped Abd (45lb)"), ph \in ReviewCTDIs("Ped Head (1y)") :
          LET data == ReviewTable(("Adult Abdomen" :> aa) @@ ("Adult Head" :> ah)
                                  @@ ("Ped Abd (45lb)" :> pa) @@ ("Ped Head (1y)" :> ph))
          IN  out' = [kind |-> "protocol_review", request |-> [kind |-> "protocol_review"],
                      data |-> data, review |-> protocol_review(data)]
    /\ UNCHANGED <<qc_data, trending_data, uploaded_file, scanner_info>>

SpecProtocolReview == Init /\ [][FirstProtocolReview]_vars

----------------------------------------------------------------------------
(* Low contrast resolution (lines 588-722).  Signal, noise and noise SD    *)
(* are counts of 0.1 HU, the step of the number inputs.                    *)

LowContrastProtocols == {"Adult Abdomen", "Adult Head", "Ped Abd", "Ped Head"}

\* lines 605-628: the keys of the twelve checkboxes
VisibilityKeys ==
    {"6mm_03", "6mm_05", "6mm_10", "4mm_03", "4mm_05", "4mm_10",
     "3mm_03", "3mm_05", "3mm_10", "2mm_03", "2mm_05", "2mm_10"}

\* lines 647-650: sum() of the three checkboxes of an object size
objects_visible(visibility, size) ==
    Cardinality({k \in {size \o "_03", size \o "_05", size \o "_10"} : visibility[k]})

\* line 658
cnr(signal, noise, noise_sd) == IF noise_sd > 0 THEN Frac(signal - noise, noise_sd) ELSE F(0)

\* lines 661-666
cnr_criteria ==
    [p \in LowContrastProtocols |->
        CASE p = "Adult Head"    -> F(1)
          [] p = "Adult Abdomen" -> F(1)
          [] p = "Ped Head"      -> Frac(7, 10)
          [] p = "Ped Abd"       -> Frac(2, 5)]

\* line 668: cnr_criteria.get(protocol, 1.0)
cnr_required(protocol) ==
    IF protocol \in DOMAIN cnr_criteria THEN cnr_criteria[protocol] ELSE F(1)

\* Variant of cnr_pass: the required minimum itself does not pass
cnr_pass_strict(cnr_value, required) == FLT(required, cnr_value)

\* line 669
cnr_pass(cnr_value, required) == FLE(required, cnr_value)

\* Variant of low_contrast_overall: the CNR requirement alone decides
low_contrast_overall_cnr_only(minimum_met, cnr_ok) == cnr_ok

\* line 707
low_contrast_overall(minimum_met, cnr_ok) == minimum_met /\ cnr_ok

\* "Pass" / "Fail" of a test outcome (lines 690, 699, 708)
pass_or_fail(ok) == IF ok THEN "Pass" ELSE "Fail"

\* The "Evaluate Low Contrast Resolution" button (line 645); the section
\* does not write to the store
RunLowContrast(r) ==
    /\ r.kind = "low_contrast"
    /\ LET objects       == [size \in {"6mm", "4mm", "3mm", "2mm"} |->
                                objects_visible(r.visibility, size)]
           total_visible == objects["6mm"] + objects["4mm"] + objects["3mm"] + objects["2mm"]
           minimum_met   == r.visibility["6mm_03"]
           cnr_value     == cnr(r.signal, r.noise, r.noise_sd)
           required      == cnr_required(r.protocol)
           cnr_ok        == cnr_pass(cnr_value, required)
           overall_pass  == low_contrast_overall(minimum_met, cnr_ok)
       IN  out' = [kind |-> "low_contrast", request |-> r,
                   objects |-> objects, total_visible |-> total_visible,
                   cnr |-> cnr_value, cnr_required |-> required,
                   results |-> <<[Test |-> "Minimum Requirement",
                                  Status |-> pass_or_fail(minimum_met)],
                                 [Test |-> "Contrast-to-Noise Ratio",
                                  Status |-> pass_or_fail(cnr_ok)],
                                 [Test |-> "Overall Low Contrast Resolution",
                                  Status |-> pass_or_fail(overall_pass)]>>,
                   overall_pass |-> overall_pass,
                   overall_status |-> pass_or_fail(overall_pass)]
    /\ qc_data' = import_qc_data(qc_data, uploaded_file)
    /\ UNCHANGED <<trending_data, uploaded_file, scanner_info>>

LowContrastRequest(p, visibility, signal, noise, noise_sd) ==
    [kind |-> "low_contrast", protocol |-> p, visibility |-> visibility,
     signal |-> signal, noise |-> noise, noise_sd |-> noise_sd]

\* The checkboxes of the 6 mm objects in any combination, those of the
\* smaller objects all unticked or all ticked
Visibilities ==
    {[k \in VisibilityKeys |->
        CASE k = "6mm_03" -> a [] k = "6mm_05" -> b [] k = "6mm_10" -> c [] OTHER -> d] :
        a \in BOOLEAN, b \in BOOLEAN, c \in BOOLEAN, d \in BOOLEAN}

(* Noise at its default 89.0 HU; noise SD negative, zero or positive; the  *)
(* signal such that the quotient is close to one of the three minima       *)
LowContrastSpread == 1

NoiseSDs == {-10, 0, 10, 30, 60}

SignalsAbove(noise, noise_sd) ==
    {noise + (m * noise_sd) \div 10 + d : m \in {4, 7, 10}, d \in -LowContrastSpread..LowContrastSpread}

\* The first low contrast evaluation of a session
FirstLowContrast ==
    /\ out = NoOutput
    /\ \E p \in LowContrastProtocols, v \in Visibilities, sd \in NoiseSDs :
          \E sig \in SignalsAbove(890, sd) :
             RunLowContrast(LowContrastRequest(p, v, sig, 890, sd))

SpecLowContrast == Init /\ [][FirstLowContrast]_vars

----------------------------------------------------------------------------
(* Artifacts assessment (lines 802-900) *)

Severities == {"None", "Minor", "Major"}

ArtifactTypes == <<"streaks", "rings", "cupping", "motion", "noise_variation">>

\* lines 850-854
artifact_scores == [sev \in Severities |-> CASE sev = "None" -> 0 [] sev = "Minor" -> 1 [] sev = "Major" -> 2]

\* lines 856-858
total_score(r) ==
    artifact_scores[r.streaks] + artifact_scores[r.rings] + artifact_scores[r.cupping]
        + artifact_scores[r.motion] + artifact_scores[r.noise_variation]

\* Variant of artifacts_status: a total of 3 is already major
artifacts_status_early_major(total) ==
    IF total = 0 THEN "Pass - No significant artifacts"
    ELSE IF total < 3 THEN "Minor - Some artifacts present"
    ELSE "Major - Significant artifacts detected"

\* lines 861-869
artifacts_status(total) ==
    IF total = 0 THEN "Pass - No significant artifacts"
    ELSE IF total <= 3 THEN "Minor - Some artifacts present"
    ELSE "Major - Significant artifacts detected"

\* lines 881-887: the row of one artifact type
artifact_row(artifact_type, severity) ==
    [Artifact_Type |-> artifact_type, Severity |-> severity, Score |-> artifact_scores[severity],
     Impact |-> IF severity = "None" THEN "None" ELSE IF severity = "Minor" THEN "Low" ELSE "High"]

\* The "Evaluate Artifacts" button (line 846); the section does not write
\* to the store
RunArtifacts(r) ==
    /\ r.kind = "artifacts"
    /\ out' = [kind |-> "artifacts", request |-> r,
               total_score |-> total_score(r),
               overall_status |-> artifacts_status(total_score(r)),
               results |-> [i \in 1..Len(ArtifactTypes) |->
                               artifact_row(ArtifactTypes[i], r[ArtifactTypes[i]])],
               image_quality |-> r.image_quality,
               clinical_impact |-> r.clinical_impact,
               notes |-> r.other_artifacts]
    /\ qc_data' = import_qc_data(qc_data, uploaded_file)
    /\ UNCHANGED <<trending_data, uploaded_file, scanner_info>>

\* The widgets of the section; those that are not scored at their defaults
ArtifactsRequest(p, streaks, rings, cupping, motion, noise_variation) ==
    [kind |-> "artifacts", protocol |-> p, streaks |-> streaks, rings |-> rings,
     cupping |-> cupping, motion |-> motion, noise_variation |-> noise_variation,
     other_artifacts |-> "", phantom_32cm |-> FALSE, beyond_20cm |-> "No",
     image_quality |-> "Excellent", clinical_impact |-> "None"]

\* The first artifacts evaluation of a session, for every combination of severities
FirstArtifacts ==
    /\ out = NoOutput
    /\ \E p \in LowContrastProtocols :
          \E s1 \in Severities, s2 \in Severities, s3 \in Severities,
             s4 \in Severities, s5 \in Severities :
             RunArtifacts(ArtifactsRequest(p, s1, s2, s3, s4, s5))

SpecArtifacts == Init /\ [][FirstArtifacts]_vars

----------------------------------------------------------------------------
(* Spatial resolution (lines 902-1001).  Resolutions are counts of         *)
(* 0.1 lp/cm, the step of the number inputs, within 0.0 .. 20.0.           *)

SpatialProtocols ==
    {"Adult Abdomen", "Adult Head", "Ped Abd", "Ped Head", "High Resolution Chest"}

VisualQualities == {"Excellent", "Good", "Fair", "Poor"}

\* lines 937-943
criteria_map == [p \in SpatialProtocols |-> IF p = "High Resolution Chest" THEN 80 ELSE 60]

\* line 945: criteria_map.get(protocol, 6.0)
required_resolution(protocol) ==
    IF protocol \in DOMAIN criteria_map THEN criteria_map[protocol] ELSE 60

\* line 951
meets_minimum(measured_resolution, required) == measured_resolution >= required

\* line 952
baseline_comparison(measured_resolution, baseline_resolution) ==
    Abs(measured_resolution - baseline_resolution) <= 10

\* line 964
spatial_overall(min_ok, baseline_ok) == min_ok /\ baseline_ok

\* The "Evaluate Spatial Resolution" button (line 947); the section does
\* not write to the store
RunSpatialResolution(r) ==
    /\ r.kind = "spatial"
    /\ LET required     == required_resolution(r.protocol)
           min_ok       == meets_minimum(r.measured_resolution, required)
           baseline_ok  == baseline_comparison(r.measured_resolution, r.baseline_resolution)
           overall_pass == spatial_overall(min_ok, baseline_ok)
       IN  out' = [kind |-> "spatial", request |-> r,
                   required_resolution |-> required,
                   deviation |-> Abs(r.measured_resolution - r.baseline_resolution),
                   results |-> <<[Test |-> "Minimum Resolution",
                                  Status |-> pass_or_fail(min_ok)],
                                 [Test |-> "Baseline Comparison",
                                  Status |-> IF baseline_ok THEN "Pass" ELSE "Monitor"],
                                 [Test |-> "Visual Assessment",
                                  Status |-> IF r.visual_quality \in {"Excellent", "Good"}
                                             THEN "Pass" ELSE "Monitor"]>>,
                   overall_pass |-> overall_pass,
                   status |-> pass_or_fail(overall_pass)]
    /\ qc_data' = import_qc_data(qc_data, uploaded_file)
    /\ UNCHANGED <<trending_data, uploaded_file, scanner_info>>

SpatialRequest(p, measured_resolution, baseline_resolution, visual_quality) ==
    [kind |-> "spatial", protocol |-> p, measured_resolution |-> measured_resolution,
     baseline_resolution |-> baseline_resolution, visual_quality |-> visual_quality]

(* Measured resolution at the default 7.0 or close to the required         *)
(* minimum; baseline equal to it or about 1.0 lp/cm away                   *)
SpatialSpread == 1

MeasuredResolutions(p) ==
    {70} \cup {required_resolution(p) + d : d \in -SpatialSpread..SpatialSpread}

BaselineResolutions(m) ==
    {m} \cup {m + s * (10 + d) : s \in {-1, 1}, d \in -SpatialSpread..SpatialSpread}

\* The first spatial resolution evaluation of a session
FirstSpatialResolution ==
    /\ out = NoOutput
    /\ \E p \in SpatialProtocols, q \in VisualQualities :
          \E m \in MeasuredResolutions(p) :
             \E b \in BaselineResolutions(m) :
                RunSpatialResolution(SpatialRequest(p, m, b, q))

SpecSpatial == Init /\ [][FirstSpatialResolution]_vars

----------------------------------------------------------------------------
(* Report generation (lines 1132-1435).  The report text is modelled by    *)
(* the values that the f-string interpolates and by the Status line of     *)
(* each of its eight test sections.                                        *)

\* lines 1226-1314: the Status lines of the report; they are literal text
report_sections ==
    <<[title |-> "DOSIMETRY ASSESSMENT",
       status |-> "PASS - All dose levels below ACR reference values"],
      [title |-> "BEAM COLLIMATION AND SLICE THICKNESS",
       status |-> "PASS - All geometric parameters within tolerance"],
      [title |-> "CT NUMBER ACCURACY",
       status |-> "PASS - All materials within specification"],
      [title |-> "LOW CONTRAST RESOLUTION",
       status |-> "PASS - Minimum and enhanced requirements met"],
      [title |-> "CT NUMBER UNIFORMITY",
       status |-> "PASS - Uniformity within acceptable limits"],
      [title |-> "ARTIFACTS ASSESSMENT",
       status |-> "PASS - No clinically significant artifacts"],
      [title |-> "SPATIAL RESOLUTION",
       status |-> "PASS - Spatial resolution meets requirements"],
      [title |-> "RADIATION PROTECTION SURVEY",
       status |-> "PASS - All areas below regulatory limits"]>>

\* qc_data.get(key, {}) on a dict
dict_get(store, key) == IF key \in DOMAIN store.val THEN store.val[key] ELSE PyDict(EmptyMap)

\* lines 1177-1435: generate_comprehensive_report(); lines 1184-1185 read the
\* dosimetry and CT number results of the store, and nothing of the text
\* that follows uses them
generate_comprehensive_report(store, info, r) ==
    LET dosimetry_results == dict_get(store, "dosimetry_results")
        ct_number_results == dict_get(store, "ct_number_results")
    IN  [facility     |-> r.facility_name,
         address      |-> info.address,
         location     |-> info.location,
         xray_license |-> info.xray_license,
         manufacturer |-> info.manufacturer,
         model        |-> info.model,
         serial       |-> info.serial,
         report_type  |-> r.report_type,
         period       |-> r.report_period,
         physicist    |-> r.physicist_name,
         physicist2   |-> IF info.physicist2 = "" THEN "N/A" ELSE info.physicist2,
         sections     |-> report_sections]

\* The "Generate QC Report" button (line 1152)
RunReport(r) ==
    /\ r.kind = "report"
    /\ qc_data' = import_qc_data(qc_data, uploaded_file)
    /\ out' = IF r.physicist_name # "" /\ r.facility_name # ""
              THEN [kind |-> "report", request |-> r, error |-> FALSE,
                    report_content |-> generate_comprehensive_report(qc_data', scanner_info, r)]
              ELSE [kind |-> "report", request |-> r, error |-> TRUE,
                    message |-> "Please fill in all required fields"]
    /\ UNCHANGED <<trending_data, uploaded_file, scanner_info>>

\* The widgets of the section: the two names start from the scanner
\* information (lines 1142-1148)
ReportRequest(report_type, physicist_name, facility_name) ==
    [kind |-> "report", report_type |-> report_type, physicist_name |-> physicist_name,
     facility_name |-> facility_name, report_period |-> "January 2025 - December 2025"]

----------------------------------------------------------------------------
(* Data management in the sidebar (lines 1438-1481) *)

\* Python truth value of the store
Truthy(o) ==
    CASE o.type = "dict" -> DOMAIN o.val # {}
      [] o.type = "list" -> Len(o.val) > 0
      [] OTHER           -> TRUE

\* The "Export QC Data" button (line 1465): export_qc_data() offers the
\* download when the store is not empty; it runs ahead of import_qc_data()
RunExport(r) ==
    /\ r.kind = "export"
    /\ out' = [kind |-> "export", request |-> r,
               download |-> IF Truthy(qc_data) THEN JsonFile(json_dumps(qc_data)) ELSE NoFile]
    /\ qc_data' = import_qc_data(qc_data, uploaded_file)
    /\ UNCHANGED <<trending_data, uploaded_file, scanner_info>>

\* lines 1477-1481: the data summary of the sidebar lists the keys of a store
\* that is not empty; the listing needs a dict
sidebar_summary(store) == Truthy(store) => store.type = "dict"

\* The exception that the data summary raises, if any
sidebar_exception(store) == IF sidebar_summary(store) THEN "none" ELSE "AttributeError"

\* The user puts a file into the uploader, or takes the file out of it
\* (r.file = NoFile); the script run that follows imports the file, shows
\* the message of the import and goes on to the data summary
RunUpload(r) ==
    /\ r.kind = "upload"
    /\ uploaded_file' = r.file
    /\ qc_data' = import_qc_data(qc_data, r.file)
    /\ out' = [kind |-> "upload", request |-> r,
               message |-> IF ~r.file.present THEN "none"
                           ELSE IF r.file.parses THEN "QC data imported successfully!"
                           ELSE "Error importing data",
               exception |-> sidebar_exception(qc_data')]
    /\ UNCHANGED <<trending_data, scanner_info>>

UploadRequest(file) == [kind |-> "upload", file |-> file]

\* A file whose content is not JSON
BadFile == [present |-> TRUE, parses |-> FALSE, text |-> [json |-> "invalid"]]

\* A script run in which the data summary of the sidebar raises: it ends
\* there, ahead of main(), whatever the user did; the import has run
RunCrash ==
    /\ qc_data' = import_qc_data(qc_data, uploaded_file)
    /\ out' = [kind |-> "crash", exception |-> sidebar_exception(qc_data')]
    /\ UNCHANGED <<trending_data, uploaded_file, scanner_info>>

\* lines 1471-1474: the store is emptied in a script run in which the button
\* returns True and the checkbox rendered under it returns True
clear_all_data(store, button, confirm) == IF button /\ confirm THEN PyDict(EmptyMap) ELSE store

\* The "Clear All Data" button is pressed: in the script run that follows it
\* returns True and the checkbox "Confirm data deletion" is rendered for the
\* first time, unticked
RunClear(r) ==
    /\ r.kind = "clear"
    /\ qc_data' = clear_all_data(import_qc_data(qc_data, uploaded_file), TRUE, FALSE)
    /\ out' = [kind |-> "clear", request |-> r, checkbox_shown |-> TRUE,
               message |-> "none"]
    /\ UNCHANGED <<trending_data, uploaded_file, scanner_info>>

\* The checkbox on the page is ticked: in the script run that follows the
\* button returns False, so that line 1472 is not reached and the checkbox
\* is not rendered any more
RunConfirm(r) ==
    /\ r.kind = "confirm"
    /\ qc_data' = clear_all_data(import_qc_data(qc_data, uploaded_file), FALSE, TRUE)
    /\ out' = [kind |-> "confirm", request |-> r, checkbox_shown |-> FALSE,
               message |-> "none"]
    /\ UNCHANGED <<trending_data, uploaded_file, scanner_info>>

----------------------------------------------------------------------------
(* The application: any sequence of script runs.  The requests of a        *)
(* session are taken from the small sets below.                            *)

SessionDoseProtocols == {"Adult Abdomen", "Ped Abd (45lb)"}

\* all five readings at 0 (nothing entered), 7.6 mGy or 30.0 mGy
SessionDoseReadings == {0, 76, 300}

SessionCTProtocols == {"Adult Abdomen"}

\* water measured at 0 HU or 8 HU, the other materials at their defaults
SessionWaterValues == {0, 8}

\* the parameters looked at without generating new data
SessionViewParameters == {"Image Noise", "Water CT Number"}

SessionSamples ==
    {[present |-> TRUE, columns |-> [col \in TrendColumns |-> SampleSeries(0, top, 1)]] :
        top \in {1, MaxValue}}

\* the facility name that the user saves
SessionFacilityNames == {"UT Medical Center"}

\* a JSON array of one record, and an empty JSON object
SessionArrayFile ==
    JsonFile([json |-> "array",
              val  |-> <<[json |-> "object",
                          val  |-> [status |-> [json |-> "string", val |-> "Pass"]]]>>])

SessionEmptyObjectFile == JsonFile([json |-> "object", val |-> EmptyMap])

\* A script run gets past the sidebar, which runs ahead of main(), with the
\* store that the uploader leaves
SidebarRenders == sidebar_summary(import_qc_data(qc_data, uploaded_file))

Next ==
    \/ /\ SidebarRenders
       /\ \E f \in SessionFacilityNames :
             RunFacility(FacilityRequest(scanner_info, f, "D. Osborne", ""))
    \/ /\ SidebarRenders
       /\ RunProtocolReview([kind |-> "protocol_review"])
    \/ /\ SidebarRenders
       /\ \E p \in SessionDoseProtocols, v \in SessionDoseReadings :
             RunDosimetry(DosimetryRequest(p, v, v, v, v, v, DefaultScan))
    \/ /\ SidebarRenders
       /\ \E p \in SessionCTProtocols, w \in SessionWaterValues :
             RunCTNumber(CTNumberRequest(p, -1000, 120, w, 850))
    \/ /\ SidebarRenders
       /\ \E ml \in {0, 5010}, w \in {1000, 30000} :
             RunBeamCollimation(BeamRequest(ml, 20570, w))
    \/ /\ SidebarRenders
       /\ \E sd \in {0, 60} :
             RunLowContrast(LowContrastRequest("Adult Abdomen",
                                               [k \in VisibilityKeys |-> k = "6mm_03"],
                                               950, 890, sd))
    \/ /\ SidebarRenders
       /\ \E t \in {0, 60} :
             RunUniformity(UniformityRequest("Adult Abdomen", 0, t, 0, 0, 0))
    \/ /\ SidebarRenders
       /\ \E sev \in {"None", "Major"} :
             RunArtifacts(ArtifactsRequest("Adult Abdomen", sev, "None", "Minor", "None", "None"))
    \/ /\ SidebarRenders
       /\ \E b \in {70, 85} : RunSpatialResolution(SpatialRequest("Adult Abdomen", 70, b, "Good"))
    \/ /\ SidebarRenders
       /\ \E t \in SessionSamples :
             RunTrending(TrendingRequest(TRUE, "Water CT Number", t))
    \/ /\ SidebarRenders
       /\ \E p \in SessionViewParameters : RunTrending(TrendingRequest(FALSE, p, NoData))
    \/ /\ SidebarRenders
       /\ \E f \in {scanner_info.facility, ""} :
             RunReport(ReportRequest("Annual QC Summary", scanner_info.physicist1, f))
    \/ /\ SidebarRenders
       /\ RunExport([kind |-> "export"])
    \/ /\ out.kind = "export"
       /\ out.download.present
       /\ RunUpload(UploadRequest(out.download))
    \/ /\ ~uploaded_file.present
       /\ \/ RunUpload(UploadRequest(SessionArrayFile))
          \/ RunUpload(UploadRequest(SessionEmptyObjectFile))
          \/ RunUpload(UploadRequest(BadFile))
    \/ /\ uploaded_file.present
       /\ RunUpload(UploadRequest(NoFile))
    \/ /\ SidebarRenders
       /\ RunClear([kind |-> "clear"])
    \/ /\ out.kind = "clear"
       /\ SidebarRenders
       /\ RunConfirm([kind |-> "confirm"])
    \/ /\ ~SidebarRenders
       /\ RunCrash

Spec == Init /\ [][Next]_vars

(* The criterion lookups of dosimetry (line 351), low contrast resolution  *)
(* (line 668) and spatial resolution (line 945), taken as functions of the *)
(* protocol name.  The selectbox of each section (lines 301-304, 633-635,  *)
(* 914-916) offers exactly the names of the section's own table, so the    *)
(* names of the other sections reach a lookup only when it is taken by     *)
(* itself, as here.                                                        *)
ApplicationProtocols == DosimetryProtocols \cup LowContrastProtocols \cup SpatialProtocols

\* Dosimetry with five equal readings, for any protocol name of the application
FirstDosimetryLookup ==
    /\ out = NoOutput
    /\ \E p \in ApplicationProtocols, c \in {0, 75, 250, 300, 301, 800} :
          RunDosimetry(DosimetryRequest(p, c, c, c, c, c, DefaultScan))

\* Low contrast resolution with the 6 mm, 0.3% object seen, for any protocol
\* name of the application
FirstCNRLookup ==
    /\ out = NoOutput
    /\ \E p \in ApplicationProtocols, sig \in {890, 914, 932, 950, 960}, sd \in {0, 60} :
          RunLowContrast(LowContrastRequest(p, [k \in VisibilityKeys |-> k = "6mm_03"],
                                            sig, 890, sd))

\* Spatial resolution against a baseline of 7.0 lp/cm, for any protocol name
\* of the application
FirstResolutionLookup ==
    /\ out = NoOutput
    /\ \E p \in ApplicationProtocols, m \in {59, 60, 70, 79, 80} :
          RunSpatialResolution(SpatialRequest(p, m, 70, "Good"))

NextLookup == FirstDosimetryLookup \/ FirstCNRLookup \/ FirstResolutionLookup

SpecLookup == Init /\ [][NextLookup]_vars

\* The first evaluation of a session in one of the sections whose items are
\* Pass or Fail only
NextPassFail == FirstBeamCollimation \/ FirstCTNumber \/ FirstLowContrast

SpecPassFail == Init /\ [][NextPassFail]_vars

\* The first evaluation of a session in one of the sections with a required
\* minimum per protocol
NextMinimumThreshold == FirstLowContrast \/ FirstSpatialResolution

SpecMinimumThreshold == Init /\ [][NextMinimumThreshold]_vars

----------------------------------------------------------------------------
(* Properties *)

\* |x| <= bound for a fraction x and a fraction bound, by cross-multiplication
WithinBand(x, bound) == Abs(x.num) * bound.den <= bound.num * x.den

\* Water tolerances that a per-material table could hold
WaterTableEntries == {0, 7, 40, 100}

\* C1: in a CT number evaluation the row of every material is Pass exactly
\* when |measured - expected| <= tolerance of the material and Fail otherwise,
\* the tolerance of Water being 7 HU whatever the table holds for Water.
C1_CTNumberTolerance ==
    out.kind = "ct_number" =>
        /\ \A i \in 1..Len(Materials) :
              LET m   == Materials[i]
                  v   == out.request.measurements[m]
                  tol == IF m = "Water" THEN 7 ELSE materials_ref[m].tolerance
              IN  /\ out.results[i]["Material"] = m
                  /\ out.results[i]["Result"] \in {"Pass", "Fail"}
                  /\ out.results[i]["Result"] = "Pass"
                        <=> Abs(v - materials_ref[m].expected) <= tol
        /\ \A t \in WaterTableEntries :
              pass_criteria([materials_ref EXCEPT !["Water"].tolerance = t], "Water",
                            out.request.measurements["Water"])
                 <=> Abs(out.request.measurements["Water"]) <= 7

\* C1 witness: water 8 HU off is Fail while air exactly 100 HU off is Pass
C1_Witness ==
    /\ out.kind = "ct_number"
    /\ out.request.measurements["Water"] = 8
    /\ out.results[3]["Result"] = "Fail"
    /\ out.request.measurements["Air"] = -1100
    /\ out.results[1]["Result"] = "Pass"

\* C2: a dosimetry evaluation that computes CTDI_w gives exactly one of three
\* statuses: Pass when CTDI_w <= reference, Minor when reference < CTDI_w <=
\* pass/fail, Major Fail when CTDI_w > pass/fail (both limits inclusive).
C2_TwoTierStatus ==
    (out.kind = "dosimetry" /\ ~out.error) =>
        LET w     == out.ctdi_w
            limit == acr_limits[out.request.protocol_type]
            ref   == limit.ref * w.den
            pf    == limit.pf * w.den
        IN  /\ out.status \in {"Pass - Below Reference",
                               "Minor - Above Reference, Below P/F",
                               "Major Fail - Above Pass/Fail Limit"}
            /\ out.status = "Pass - Below Reference" <=> w.num <= ref
            /\ out.status = "Minor - Above Reference, Below P/F" <=> (ref < w.num /\ w.num <= pf)
            /\ out.status = "Major Fail - Above Pass/Fail Limit" <=> w.num > pf

\* C2 witness: CTDI_w exactly on the pass/fail limit is Minor
C2_Witness ==
    /\ out.kind = "dosimetry"
    /\ ~out.error
    /\ out.ctdi_w = F(acr_limits[out.request.protocol_type].pf)
    /\ out.status = "Minor - Above Reference, Below P/F"

\* The five readings of a dosimetry request, centre first
Readings(r) == <<r.ctdi_center, r.ctdi_top, r.ctdi_bottom, r.ctdi_left, r.ctdi_right>>

\* CTDI_w of five readings
WeightedCTDI(rd) == ctdi_w(rd[1], ctdi_periphery_avg(rd[2], rd[3], rd[4], rd[5]))

MaxRaise == 2

\* C3: CTDI_w = (center + 4 * mean(top, bottom, left, right)) / 5; raising any
\* one reading strictly raises it; five equal readings v give v.
C3_WeightedCTDI ==
    (out.kind = "dosimetry" /\ ~out.error) =>
        LET rd == Readings(out.request)
            w  == out.ctdi_w
        IN  /\ 5 * w.num = (rd[1] + rd[2] + rd[3] + rd[4] + rd[5]) * w.den
            /\ 4 * out.ctdi_periphery_avg.num
                  = (rd[2] + rd[3] + rd[4] + rd[5]) * out.ctdi_periphery_avg.den
            /\ \A i \in 1..5, d \in 1..MaxRaise :
                  FLT(w, WeightedCTDI([rd EXCEPT ![i] = @ + d]))
            /\ (\A i \in 2..5 : rd[i] = rd[1]) => w = F(rd[1])

\* C3 witness: an evaluation whose centre and peripheral readings differ
C3_Witness ==
    /\ out.kind = "dosimetry"
    /\ ~out.error
    /\ out.request.ctdi_center < out.request.ctdi_top
    /\ out.request.ctdi_bottom < out.request.ctdi_left

\* C4: every row of the beam collimation table has the criterion
\* max(0.30 * nominal, 3.0 mm) and is Pass exactly when |width - nominal| <=
\* criterion, Fail otherwise.
C4_BeamCriterion ==
    out.kind = "beam" =>
        \A i \in 1..Len(out.results) :
            LET row  == out.results[i]
                N    == row.Nominal
                crit == IF 3 * N >= 10 * 3000 THEN Frac(3 * N, 10) ELSE F(3000)
                err  == [num |-> row.Beam_Width.num - N * row.Beam_Width.den,
                         den |-> row.Beam_Width.den]
            IN  /\ row.Criteria = crit
                /\ row.Result \in {"Pass", "Fail"}
                /\ row.Result = "Pass" <=> WithinBand(err, crit)

\* C4 witness: the 5 mm row is 3 mm wide of nominal, exactly its criterion, and passes
C4_Witness ==
    /\ out.kind = "beam"
    /\ Len(out.results) = 4
    /\ out.results[3].Beam_Width = F(8000)
    /\ out.results[3].Criteria = F(3000)
    /\ out.results[3].Result = "Pass"
    /\ out.results[2].Result = "Fail"

\* The calibration slope of a beam request is defined and not positive
SlopeNotPositive(r) ==
    /\ r.mask_length # 0
    /\ (r.without_mask - r.with_mask) * r.mask_length <= 0

\* C5: with a non-positive calibration slope the beam collimation evaluation
\* produces no beam width and classifies no tested collimation.
C5_NoWidthWithoutCalibration ==
    (out.kind = "beam" /\ SlopeNotPositive(out.request)) => out.results = <<>>

\* C6: the uniformity status is Pass exactly when the largest |peripheral -
\* center| over the four positions is <= 5 HU, for every protocol; Fail otherwise.
C6_UniformityCriterion ==
    out.kind = "uniformity" =>
        LET r == out.request
            P == {r.top_roi, r.bottom_roi, r.left_roi, r.right_roi}
        IN  /\ out.status \in {"Pass", "Fail"}
            /\ out.status = "Pass" <=> \A p \in P : Abs(p - r.center_roi) <= 50
            /\ out.request.protocol \in CTNumberProtocols

\* C6 witness: peripheral ROIs exactly 5.0 HU above and below an off-zero
\* centre pass, for a protocol other than the preselected one
C6_Witness ==
    /\ out.kind = "uniformity"
    /\ out.request.protocol = "Ped Head"
    /\ out.request.center_roi = 1
    /\ out.request.top_roi = 51
    /\ out.request.bottom_roi = -49
    /\ out.max_difference = 50
    /\ out.status = "Pass"

\* The column analysed by the last rendering of the data analysis section
ShownColumn == trending_data.columns[param_map[out.request.parameter]]

\* The deviation of y[i] from the mean of y, squared, against k standard
\* deviations squared; both sides multiplied by n^2 * (n - 1)
DeviationSq(y, i) ==
    LET n == Len(y) IN (n * y[i] - SeqSum(y)) * (n * y[i] - SeqSum(y)) * (n - 1)

SigmaSq(y, k) ==
    LET n == Len(y)
    IN  k * k * n * (n * SeqSum([i \in 1..n |-> y[i] * y[i]]) - SeqSum(y) * SeqSum(y))

\* C7: a point is out of control exactly when it is strictly more than three
\* standard deviations above or below the mean; a point on a 3-sigma limit
\* is not out of control.
C7_OutOfControl ==
    (out.kind = "trending" /\ out.shown) =>
        LET y == ShownColumn
        IN  \A i \in 1..Len(y) :
                i \in out.chart.out_of_control <=> DeviationSq(y, i) > SigmaSq(y, 3)

\* C7 witness: a series with a point beyond its 3-sigma limit, reported out of control
C7_Witness ==
    /\ out.kind = "trending"
    /\ out.shown
    /\ \E i \in 1..Len(ShownColumn) :
          /\ DeviationSq(ShownColumn, i) > SigmaSq(ShownColumn, 3)
          /\ i \in out.chart.out_of_control

\* C8 as claimed: a point is a warning point exactly when it lies strictly
\* between the 2-sigma and the 3-sigma limit on one side; a point on a
\* 2-sigma or on a 3-sigma limit is not a warning point.
C8_WarningStrictlyBetween ==
    (out.kind = "trending" /\ out.shown) =>
        LET y == ShownColumn
        IN  \A i \in 1..Len(y) :
                i \in out.chart.warning_points
                   <=> (DeviationSq(y, i) > SigmaSq(y, 2) /\ DeviationSq(y, i) < SigmaSq(y, 3))

\* C8 amended: a point is a warning point exactly when it lies beyond the
\* 2-sigma limit and not beyond the 3-sigma limit of the same side
\* (m + 2s < v <= m + 3s or m - 3s <= v < m - 2s); a point on a 2-sigma limit
\* is not a warning point, a point on a 3-sigma limit beyond the 2-sigma
\* limit is one.
C8_WarningUpToThreeSigma ==
    (out.kind = "trending" /\ out.shown) =>
        LET y == ShownColumn
        IN  \A i \in 1..Len(y) :
                i \in out.chart.warning_points
                   <=> (DeviationSq(y, i) > SigmaSq(y, 2) /\ DeviationSq(y, i) <= SigmaSq(y, 3))

\* C8 witness: a point exactly on the 3-sigma limit of a series with a
\* positive standard deviation, reported as a warning point
C8_Witness ==
    /\ out.kind = "trending"
    /\ out.shown
    /\ \E i \in 1..Len(ShownColumn) :
          /\ DeviationSq(ShownColumn, i) = SigmaSq(ShownColumn, 3)
          /\ SigmaSq(ShownColumn, 3) > 0
          /\ i \in out.chart.warning_points

\* C9: the trend status is "Stable" exactly when no point is out of control
\* and "Investigate" otherwise, whatever the number of warning points.
C9_TrendStatus ==
    (out.kind = "trending" /\ out.shown) =>
        /\ out.chart.trend_status \in {"Stable", "Investigate"}
        /\ out.chart.trend_status = "Stable" <=> out.chart.out_of_control = {}
        /\ out.chart.out_of_control
              = {i \in 1..Len(ShownColumn) : DeviationSq(ShownColumn, i) > SigmaSq(ShownColumn, 3)}

\* C9 witness: warning points and no out-of-control point: the status is Stable
C9_Witness ==
    /\ out.kind = "trending"
    /\ out.shown
    /\ out.chart.warning_points # {}
    /\ out.chart.out_of_control = {}
    /\ out.chart.trend_status = "Stable"

\* The numeric fields of the stored dosimetry records are floats, and ints
\* where the widget is an integer input
NumericFieldsNumeric(store) ==
    /\ "dosimetry_results" \in DOMAIN store.val =>
          \A p \in DOMAIN store.val["dosimetry_results"].val :
              LET rec == store.val["dosimetry_results"].val[p].val
              IN  /\ \A f \in {"ctdi_center", "ctdi_periphery", "ctdi_w", "rotation_time",
                               "mas", "nt", "pct_ref", "pct_pf"} : rec[f].type = "float"
                  /\ \A f \in {"kvp", "ma"} : rec[f].type = "int"
    /\ "ct_number_results" \in DOMAIN store.val =>
          \A p \in DOMAIN store.val["ct_number_results"].val :
              LET rec == store.val["ct_number_results"].val[p].val
              IN  /\ \A m \in DOMAIN rec["measurements"].val :
                        rec["measurements"].val[m].type = "float"
                  /\ rec["overall_pass"].type = "bool"

\* C10: export followed by import is lossless: the import of the data that an
\* export offers yields the exported store (same sections, protocols, statuses,
\* results, and numeric fields still numeric), and a session that uploads the
\* file it has just exported keeps its store.
C10_RoundTrip ==
    [][ /\ (out'.kind = "export" /\ out'.download.present) =>
              /\ import_qc_data(PyDict(EmptyMap), out'.download) = qc_data
              /\ NumericFieldsNumeric(import_qc_data(PyDict(EmptyMap), out'.download))
        /\ (/\ out.kind = "export" /\ out.download.present /\ ~uploaded_file.present
            /\ out'.kind = "upload" /\ out'.request.file.present
            /\ out'.request.file.text.json = "object"
            /\ out'.request.file = out.download) =>
              /\ qc_data' = qc_data
              /\ NumericFieldsNumeric(qc_data')
      ]_vars

\* C10 witness: the export of a store with both sections has been imported
C10_Witness ==
    /\ out.kind = "upload"
    /\ out.message = "QC data imported successfully!"
    /\ uploaded_file.present
    /\ DOMAIN qc_data.val = {"dosimetry_results", "ct_number_results"}
    /\ DOMAIN qc_data.val["dosimetry_results"].val = SessionDoseProtocols
    /\ qc_data = json_loads(uploaded_file.text)

\* a.type = b.type guards the comparison of values of different Python types
SameValue(a, b) == a.type = b.type /\ a = b

\* The JSON text has the shape of the result store: an object of sections,
\* every section an object of per-protocol records, every record an object
StoreShaped(file) ==
    /\ file.parses
    /\ file.text.json = "object"
    /\ \A sec \in DOMAIN file.text.val :
          /\ file.text.val[sec].json = "object"
          /\ \A p \in DOMAIN file.text.val[sec].val : file.text.val[sec].val[p].json = "object"

\* C11: an import whose data is not parseable, or is parseable and not a
\* mapping of section to per-protocol records, is rejected with the error
\* message and leaves the store as it was before the import.
C11_MalformedImportRejected ==
    [][ (out'.kind = "upload" /\ out'.request.file.present /\ ~StoreShaped(out'.request.file)) =>
            /\ out'.message = "Error importing data"
            /\ SameValue(qc_data', qc_data)
      ]_vars

\* The five CTDI readings of a dosimetry request
FiveReadings(r) == {r.ctdi_center, r.ctdi_top, r.ctdi_bottom, r.ctdi_left, r.ctdi_right}

\* C12: a dosimetry evaluation with one of the five readings left at zero ends
\* with the validation error, computes no CTDI_w and status, and leaves the
\* store unchanged; with all five readings supplied it produces a result.
C12_AllFiveReadingsRequired ==
    out.kind = "dosimetry" =>
        IF 0 \in FiveReadings(out.request)
        THEN /\ out.error
             /\ qc_data = PyDict(EmptyMap)
        ELSE /\ ~out.error
             /\ out.request.protocol_type \in DOMAIN qc_data.val["dosimetry_results"].val

\* The five scored severities of an artifacts request
ScoredSeverities(r) == <<r.streaks, r.rings, r.cupping, r.motion, r.noise_variation>>

\* Number of the five scored artifact types at severity sev
SeverityCount(r, sev) == Cardinality({i \in 1..5 : ScoredSeverities(r)[i] = sev})

\* C13: in an artifacts evaluation the total is the number of Minor types plus
\* twice the number of Major types, within 0..10, and the status is Pass for
\* total = 0, Minor (Monitor) for 0 < total <= 3 and Major for total > 3.
C13_ArtifactsScore ==
    out.kind = "artifacts" =>
        LET total == SeverityCount(out.request, "Minor") + 2 * SeverityCount(out.request, "Major")
        IN  /\ out.total_score = total
            /\ total \in 0..10
            /\ \A i \in 1..5 : out.results[i].Score =
                  (CASE ScoredSeverities(out.request)[i] = "None"  -> 0
                     [] ScoredSeverities(out.request)[i] = "Minor" -> 1
                     [] ScoredSeverities(out.request)[i] = "Major" -> 2)
            /\ out.overall_status =
                  (IF total = 0 THEN "Pass - No significant artifacts"
                   ELSE IF total <= 3 THEN "Minor - Some artifacts present"
                   ELSE "Major - Significant artifacts detected")

\* C13 witness: one Major and one Minor artifact give the total 3, still Minor
C13_Witness ==
    /\ out.kind = "artifacts"
    /\ SeverityCount(out.request, "Major") = 1
    /\ SeverityCount(out.request, "Minor") = 1
    /\ out.total_score = 3
    /\ out.overall_status = "Minor - Some artifacts present"

\* The item results of a page: the Result or Status column of its rows, the
\* row of the overall assessment left out
ItemResults ==
    CASE out.kind = "beam"         -> {out.results[i].Result : i \in 1..Len(out.results)}
      [] out.kind = "ct_number"    -> {out.results[i]["Result"] : i \in 1..Len(out.results)}
      [] out.kind = "low_contrast" -> {out.results[1].Status, out.results[2].Status}

\* C14: in beam collimation, CT number accuracy and low contrast resolution
\* the item results are Pass or Fail and the overall status is the most
\* severe of them: Pass if and only if every item is Pass, Fail otherwise.
C14_OverallIsWorst ==
    (/\ out.kind \in {"beam", "ct_number", "low_contrast"}
     /\ out.kind = "beam" => (out.exception = "none" /\ out.results # <<>>)) =>
        /\ ItemResults \subseteq {"Pass", "Fail"}
        /\ out.overall_status = (IF "Fail" \in ItemResults THEN "Fail" ELSE "Pass")
        /\ out.kind = "low_contrast" => out.results[3].Status = out.overall_status
        /\ out.kind = "ct_number" =>
              qc_data.val["ct_number_results"].val[out.request.protocol].val["overall_pass"]
                 = PyBool("Fail" \notin ItemResults)

\* C14 witness: a low contrast evaluation whose CNR item passes and whose
\* minimum requirement fails is Fail overall
C14_Witness ==
    /\ out.kind = "low_contrast"
    /\ out.results[1].Status = "Fail"
    /\ out.results[2].Status = "Pass"
    /\ out.overall_status = "Fail"

\* C15: in the spatial resolution evaluation, when the minimum resolution item
\* is Pass and the baseline comparison or the visual assessment is Monitor,
\* the overall status is Monitor, neither Pass nor Fail.
C15_MonitorDowngradesOverall ==
    (/\ out.kind = "spatial"
     /\ out.results[1].Status = "Pass"
     /\ \/ out.results[2].Status = "Monitor"
        \/ out.results[3].Status = "Monitor") =>
        out.status = "Monitor"

\* The required CNR of a protocol in tenths, as the claim lists it
C16_RequiredCNRTenths(p) ==
    CASE p \in {"Adult Head", "Adult Abdomen"} -> 10
      [] p = "Ped Head"                       -> 7
      [] p = "Ped Abd"                        -> 4

\* C16: the CNR item of low contrast resolution and the minimum resolution
\* item of spatial resolution are Pass if and only if the measured value is at
\* least the required minimum of the selected protocol, equality included;
\* the minimum is CNR 1.0 for Adult Head and Adult Abdomen, 0.7 for Ped Head,
\* 0.4 for Ped Abd, and 8.0 lp/cm for High Resolution Chest, 6.0 lp/cm for
\* the other protocols.
C16_MinimumThreshold ==
    /\ out.kind = "low_contrast" =>
          LET tenths == C16_RequiredCNRTenths(out.request.protocol)
              r      == out.request
          IN  /\ out.cnr_required.num * 10 = tenths * out.cnr_required.den
              /\ r.noise_sd > 0 =>
                    out.cnr.num * r.noise_sd = (r.signal - r.noise) * out.cnr.den
              /\ out.cnr.den > 0
              /\ out.results[2].Status =
                    (IF out.cnr.num * 10 >= tenths * out.cnr.den THEN "Pass" ELSE "Fail")
    /\ out.kind = "spatial" =>
          LET required == IF out.request.protocol = "High Resolution Chest" THEN 80 ELSE 60
          IN  /\ out.required_resolution = required
              /\ out.results[1].Status =
                    (IF out.request.measured_resolution >= required THEN "Pass" ELSE "Fail")

\* C16 witness: a Ped Abd evaluation whose CNR is exactly the minimum 0.4 and
\* passes
C16_Witness ==
    /\ out.kind = "low_contrast"
    /\ out.request.protocol = "Ped Abd"
    /\ out.request.noise_sd > 0
    /\ out.cnr.num * 5 = 2 * out.cnr.den
    /\ out.results[2].Status = "Pass"

SuccessfulEvaluation ==
    \/ out.kind = "dosimetry" /\ ~out.error
    \/ out.kind = "beam" /\ out.exception = "none" /\ out.results # <<>>
    \/ out.kind \in {"ct_number", "low_contrast", "uniformity", "artifacts", "spatial"}

\* The store keys of the two sections the program names; the other sections
\* have no key of their own in the program, any further key counts as theirs
NamedSectionKeys == {"dosimetry_results", "ct_number_results"}

\* The entry of the store under key sec holds the verdict of the last
\* evaluation, under its protocol where the section has one
HoldsVerdict(sec) ==
    LET entry == qc_data.val[sec] IN
    /\ entry.type = "dict"
    /\ CASE out.kind = "dosimetry" ->
              /\ sec = "dosimetry_results"
              /\ out.request.protocol_type \in DOMAIN entry.val
              /\ entry.val[out.request.protocol_type].val["status"] = PyStr(out.status)
         [] out.kind = "ct_number" ->
              /\ sec = "ct_number_results"
              /\ out.request.protocol \in DOMAIN entry.val
              /\ entry.val[out.request.protocol].val["overall_pass"] = PyBool(out.all_pass)
         [] out.kind = "beam" ->
              sec \notin NamedSectionKeys
         [] OTHER ->
              /\ sec \notin NamedSectionKeys
              /\ out.request.protocol \in DOMAIN entry.val

\* C18: after every successful evaluation in dosimetry, beam collimation, CT
\* number accuracy, low contrast resolution, uniformity, artifacts or spatial
\* resolution, the result store holds the verdict of the evaluation under the
\* key of its section and, where a protocol was selected, of that protocol.
C18_StoreHoldsVerdict ==
    SuccessfulEvaluation =>
        /\ qc_data.type = "dict"
        /\ \E sec \in DOMAIN qc_data.val : HoldsVerdict(sec)

\* The status line of the report section with the given title states PASS
ReportStatesPass(title) ==
    \E i \in 1..Len(out.report_content.sections) :
        /\ out.report_content.sections[i].title = title
        /\ out.report_content.sections[i].status \in
              {"PASS - All dose levels below ACR reference values",
               "PASS - All materials within specification"}

\* Every stored dosimetry record has the status Pass
StoredDosimetryPasses ==
    LET sec == qc_data.val["dosimetry_results"].val
    IN  \A p \in DOMAIN sec : sec[p].val["status"] = PyStr("Pass - Below Reference")

\* Every stored CT number record passed
StoredCTNumberPasses ==
    LET sec == qc_data.val["ct_number_results"].val
    IN  \A p \in DOMAIN sec : sec[p].val["overall_pass"] = PyBool(TRUE)

\* C19: the generated report reflects the stored verdicts: for a section with
\* a stored verdict the status the report states agrees with the stored
\* status, so stores that differ in the status of a section do not give the
\* same report text for it.
C19_ReportReflectsStore ==
    (out.kind = "report" /\ ~out.error) =>
        /\ "dosimetry_results" \in DOMAIN qc_data.val =>
              (ReportStatesPass("DOSIMETRY ASSESSMENT") <=> StoredDosimetryPasses)
        /\ "ct_number_results" \in DOMAIN qc_data.val =>
              (ReportStatesPass("CT NUMBER ACCURACY") <=> StoredCTNumberPasses)

\* The class of a protocol under the two-tier bound of the claim
TwoTierClass(row) ==
    IF row.ctdi <= row.acr_ref THEN "Pass"
    ELSE IF row.ctdi <= row.acr_pf THEN "MinorFail"
    ELSE "MajorFail"

C21_ZeroNoiseIsMonitor ==
    (out.kind = "low_contrast" /\ out.request.noise_sd = 0) =>
        /\ out.cnr.num = 0
        /\ out.results[2].Status = "Monitor"

\* The five ROI values of a uniformity request
FiveROIs(r) == {r.center_roi, r.top_roi, r.bottom_roi, r.left_roi, r.right_roi}

\* C22: the non-uniformity percentage is (max_roi - min_roi) / (max_roi +
\* min_roi) * 100 over the five ROI values, and 0 whenever max_roi + min_roi
\* = 0; no input makes the computation divide by zero.
C22_NonUniformity ==
    out.kind = "uniformity" =>
        LET rois    == FiveROIs(out.request)
            roi_max == CHOOSE x \in rois : \A y \in rois : y <= x
            roi_min == CHOOSE x \in rois : \A y \in rois : x <= y
            nu      == out.non_uniformity
        IN  /\ nu.den > 0
            /\ IF roi_max + roi_min = 0
               THEN nu.num = 0
               ELSE nu.num * (roi_max + roi_min) = (roi_max - roi_min) * 100 * nu.den

\* C22 witness: ROI values of opposite sign that cancel give 0%
C22_Witness ==
    /\ out.kind = "uniformity"
    /\ out.request.top_roi = 50
    /\ out.request.bottom_roi = -50
    /\ out.request.center_roi = 0
    /\ out.request.left_roi = 0
    /\ out.request.right_roi = 0
    /\ out.non_uniformity.num = 0

\* C23: the out-of-control and the warning classification exclude each other
\* for every series and every point; a point in neither set lies within the
\* closed 2-sigma band or exactly on a 3-sigma limit.
C23_ClassesExclusive ==
    (out.kind = "trending" /\ out.shown) =>
        LET y == ShownColumn
        IN  /\ out.chart.out_of_control \cap out.chart.warning_points = {}
            /\ \A i \in 1..Len(y) :
                  i \notin (out.chart.out_of_control \cup out.chart.warning_points) =>
                     \/ DeviationSq(y, i) <= SigmaSq(y, 2)
                     \/ DeviationSq(y, i) = SigmaSq(y, 3)

\* C23 witness: a series with an out-of-control point that is no warning
\* point, and a point in neither set within the 2-sigma band
C23_Witness ==
    /\ out.kind = "trending"
    /\ out.shown
    /\ \E i \in out.chart.out_of_control : i \notin out.chart.warning_points
    /\ \E i \in 1..Len(ShownColumn) :
          /\ i \notin (out.chart.out_of_control \cup out.chart.warning_points)
          /\ DeviationSq(ShownColumn, i) <= SigmaSq(ShownColumn, 2)

\* The summary of a chart is the one of series y: mean, variance and the two
\* sets of points
SummaryOf(chart, y) ==
    LET n == Len(y) IN
    /\ chart.mean_val.num * n = SeqSum(y) * chart.mean_val.den
    /\ chart.std_val_squared.num * n * (n - 1)
          = (n * SeqSum([i \in 1..n |-> y[i] * y[i]]) - SeqSum(y) * SeqSum(y))
               * chart.std_val_squared.den
    /\ chart.out_of_control = {i \in 1..n : DeviationSq(y, i) > SigmaSq(y, 3)}
    /\ chart.warning_points =
          {i \in 1..n : DeviationSq(y, i) > SigmaSq(y, 2) /\ DeviationSq(y, i) <= SigmaSq(y, 3)}

\* C24: the control summary shown is computed from the trend series held at
\* that moment: after a generation it is the summary of the newly generated
\* series, after a view without generation the summary of the series held
\* before, which stays as it was; no value of an earlier series is shown.
C24_SummaryOfLatestSeries ==
    [][ (out'.kind = "trending" /\ out'.shown) =>
           LET col == param_map[out'.request.parameter]
           IN  /\ trending_data'.present
               /\ SummaryOf(out'.chart, trending_data'.columns[col])
               /\ IF out'.request.generate
                  THEN trending_data' = out'.request.sample
                  ELSE trending_data' = trending_data
      ]_vars

\* C24 witness: a view without generation that shows the summary of the
\* series generated before, with its out-of-control point
C24_Witness ==
    /\ out.kind = "trending"
    /\ out.shown
    /\ ~out.request.generate
    /\ trending_data.present
    /\ out.chart.out_of_control # {}
    /\ SummaryOf(out.chart, ShownColumn)

\* The last script run ended in one of the failures of the claim: a rejected
\* dosimetry evaluation, a beam evaluation with zero mask length or with a
\* calibration slope that is not positive, or an import that was rejected or
\* whose data has not the shape of the store
SingleFailure ==
    \/ out.kind = "dosimetry" /\ out.error
    \/ /\ out.kind = "beam"
       /\ \/ out.exception # "none"
          \/ out.request.with_mask >= out.request.without_mask
    \/ out.kind = "upload" /\ out.request.file.present /\ ~StoreShaped(out.request.file)

\* C25: after a single failure the next user action is still accepted, and a
\* valid evaluation that follows completes and yields its result.
C25_UsableAfterFailure ==
    [][ SingleFailure =>
           /\ out'.kind # "crash"
           /\ (out'.kind = "upload" /\ ~out'.request.file.present) => out'.exception = "none"
           /\ (out'.kind = "dosimetry" /\ \A v \in FiveReadings(out'.request) : v > 0) =>
                 ~out'.error
      ]_vars

\* C26: every division of the beam collimation calibration is guarded: for
\* all calibration inputs, mask_length = 0 with positive readings included,
\* computing the slope and the beam widths never divides by zero.
C26_NoDivisionByZero ==
    out.kind = "beam" =>
        /\ out.exception = "none"
        /\ \A i \in 1..Len(out.results) : out.results[i].Beam_Width.den > 0

\* The status of a dosimetry request, from its readings and protocol alone:
\* none when the readings are rejected
DosimetryStatusOf(r) ==
    LET rd    == Readings(r)
        total == rd[1] + rd[2] + rd[3] + rd[4] + rd[5]
        limit == acr_limits[r.protocol_type]
    IN  IF ~(rd[1] > 0 /\ rd[2] + rd[3] + rd[4] + rd[5] > 0) THEN "none"
        ELSE IF total <= 5 * limit.ref THEN "Pass - Below Reference"
        ELSE IF total <= 5 * limit.pf THEN "Minor - Above Reference, Below P/F"
        ELSE "Major Fail - Above Pass/Fail Limit"

\* The overall status of a CT number request, from its measurements alone
CTNumberStatusOf(r) ==
    IF \A i \in 1..Len(Materials) :
          LET m == Materials[i]
          IN  Abs(r.measurements[m] - materials_ref[m].expected)
                 <= (IF m = "Water" THEN 7 ELSE materials_ref[m].tolerance)
    THEN "Pass" ELSE "Fail"

\* C27: the status of an evaluation is a function of the entered measurements
\* and the selected protocol only: it is the same whatever the result store,
\* the facility information and the uploader hold and whatever happened
\* before.
C27_StatusOfInputsOnly ==
    /\ out.kind = "dosimetry" =>
          /\ out.error <=> DosimetryStatusOf(out.request) = "none"
          /\ ~out.error => out.status = DosimetryStatusOf(out.request)
    /\ out.kind = "ct_number" => out.overall_status = CTNumberStatusOf(out.request)

\* C27 witness: a dosimetry evaluation on the pass/fail limit gets its
\* status in a session whose store holds CT number results from an imported
\* file and whose facility information was changed
C27_Witness ==
    /\ out.kind = "dosimetry"
    /\ ~out.error
    /\ out.ctdi_w = F(acr_limits[out.request.protocol_type].pf)
    /\ out.status = "Minor - Above Reference, Below P/F"
    /\ uploaded_file.present
    /\ "ct_number_results" \in DOMAIN qc_data.val
    /\ scanner_info # default_scanner_info

\* The entries of a section of a store, none when the section is absent
EntriesOf(store, sec) == IF sec \in DOMAIN store.val THEN store.val[sec].val ELSE EmptyMap

\* The step changes nothing of the store but the entry of protocol P in
\* section sec, which it sets, and leaves the facility information alone
OnlyEntryChanges(sec, P) ==
    /\ qc_data.type = "dict"
    /\ qc_data'.type = "dict"
    /\ DOMAIN qc_data'.val = DOMAIN qc_data.val \cup {sec}
    /\ \A k \in DOMAIN qc_data.val \ {sec} : qc_data'.val[k] = qc_data.val[k]
    /\ DOMAIN EntriesOf(qc_data', sec) = DOMAIN EntriesOf(qc_data, sec) \cup {P}
    /\ \A p \in DOMAIN EntriesOf(qc_data, sec) \ {P} :
          EntriesOf(qc_data', sec)[p] = EntriesOf(qc_data, sec)[p]
    /\ scanner_info' = scanner_info

\* C28: storing a dosimetry or CT number result for protocol P changes only
\* the entry of that section for P: the other protocols of the section, the
\* other section and the facility information are unchanged, and a second
\* evaluation of P replaces the entry of P.
C28_StoreFrame ==
    [][ /\ (out'.kind = "dosimetry" /\ ~out'.error) =>
              /\ OnlyEntryChanges("dosimetry_results", out'.request.protocol_type)
              /\ qc_data'.val["dosimetry_results"].val[out'.request.protocol_type].val["status"]
                    = PyStr(out'.status)
        /\ out'.kind = "ct_number" =>
              /\ OnlyEntryChanges("ct_number_results", out'.request.protocol)
              /\ qc_data'.val["ct_number_results"].val[out'.request.protocol].val["overall_pass"]
                    = PyBool(out'.all_pass)
      ]_vars

\* The status that the dosimetry evaluation gives to the CTDI of a row of the
\* protocol review (a count of 0.01 mGy) for protocol p
DosimetryClassOf(p, row) == dosimetry_status(Frac(row.ctdi, 10), acr_limits[p])

C30_ClearCompletes ==
    [][ /\ (out.kind = "clear" /\ out'.kind = "confirm" /\ Truthy(qc_data)) =>
              ~Truthy(qc_data')
        /\ (out'.kind = "clear" /\ ~uploaded_file.present) => qc_data' = qc_data
      ]_vars

=============================================================================
